---- MODULE Spec2Model ----
(***************************************************************************)
(* Module bank of src/src/modules/bank.c: the process-wide registry of     *)
(* plug-in descriptors (modules.libs, modules.caches, modules.usage,       *)
(* modules.lock), its reference-counted lifecycle (module_InitBank,        *)
(* module_LoadPlugins, module_EndBank), the directory walker and the       *)
(* plug-in cache consulted while scanning, and lazy mapping (module_Map).  *)
(***************************************************************************)
EXTENDS Integers, Sequences, FiniteSets, TLC

VARIABLES
    lock,       \* modules.lock: 0 when free, else the thread holding it
    libs,       \* modules.libs: descriptors, head of the list first
    caches,     \* modules.caches: chain of cache blobs, head first
    usage,      \* modules.usage
    pc,         \* position of every thread in Init / Load / End
    endLibs,    \* module_EndBank's local `libs' (the detached list)
    endCaches,  \* module_EndBank's local `caches'
    ret,        \* value returned by the thread's last module_LoadPlugins
    fs,         \* the plug-in files below the search root
    cacheFile,  \* the cache blob stored on disk for the search root
    open,       \* per file, number of OS handles currently open on it
    statics,    \* number of entries of vlc_static_modules[] in this build
    scan,       \* trace of the discovery run of the current bank lifetime
    badUnlock,  \* a thread unlocked modules.lock without holding it
    mapped,     \* the module_Map call the last step made, if it made one
    listed,     \* the enumeration call the last step made, if it made one
    crashed,    \* the process was killed by an invalid memory access
    mapLock,    \* module_Map's static lock: 0 when free, else its holder
    mapCall     \* per thread, the locals of its module_Map call in progress

vars == <<lock, libs, caches, usage, pc, endLibs, endCaches, ret, fs,
          cacheFile, open, statics, scan, badUnlock, mapped, listed,
          crashed, mapLock, mapCall>>

----------------------------------------------------------------------------
(* Bounds of the model *)

NThreads == 2       \* threads using the bank concurrently
NFiles == 2         \* plug-in files below the search root
MaxSub == 1         \* submodules a plug-in may declare
MaxStatic == 1      \* entries of vlc_static_modules[]
MaxOpen == 2        \* handles the OS keeps open on one file
IntBits == 8        \* width of int, scaled down from 32

(* The range of int and the value a signed result wraps to *)
INT_MAX == 2 ^ (IntBits - 1) - 1
INT_MIN == 0 - 2 ^ (IntBits - 1)
WrapInt(x) == ((x - INT_MIN) % (2 ^ IntBits)) + INT_MIN

(* Program constant: AllocatePluginDir (&bank, 5, path, NULL) *)
MaxDepth == 5

Threads == 1 .. NThreads
Files == 1 .. NFiles

(* Directories form the chain root/sub1/sub2/.../sub<NestedDirs>. *)
NestedDirs == MaxDepth + 1
SubDir(k) == 0 - k
BaseDir == <<0>>

NoPath == <<>>      \* a NULL string
NULL == <<>>        \* a NULL descriptor pointer; <<d>> points to d
NoHandle == 0
CoreName == 0

(* Capabilities plug-ins advertise; the core module advertises none. *)
Caps == {"x", "y"}
NoCap == "none"

(* Why module_InitDynamic fails on a file that is not a sound plug-in: the
   linker rejects it, the entry symbol is missing, the entry describes
   nothing, or the copy of the path cannot be allocated. *)
Failures == {"rejected", "noentry", "nodescribe", "nomem"}
Modes == {"USE", "RESET", "IGNORE"}
UBOutcomes == {"crash", "skip"}

RECURSIVE SumSeq(_)
SumSeq(s) == IF s = <<>> THEN 0 ELSE Head(s) + SumSeq(Tail(s))

RECURSIVE SetToSeq(_)
SetToSeq(S) ==
    IF S = {} THEN <<>>
    ELSE LET m == CHOOSE x \in S : \A y \in S : x <= y
         IN <<m>> \o SetToSeq(S \ {m})

Range(s) == {s[i] : i \in 1 .. Len(s)}

----------------------------------------------------------------------------
(* Plug-in descriptors *)

(* vlc_plugin_describe: the descriptor an entry point reports.  Nothing of
   the running session (file name, handle, loaded) is set yet.  cap and
   score are those of the primary module, subs lists the capability and
   score of every submodule, nsub is submodule_count. *)
Describe(name, unloadable, config, cap, score, subs) ==
    [name |-> name, path |-> NoPath, filename |-> NoPath,
     mtime |-> 0, size |-> 0, handle |-> NoHandle,
     loaded |-> FALSE, unloadable |-> unloadable,
     config |-> config, nsub |-> Len(subs),
     cap |-> cap, score |-> score, subs |-> subs]

(* The submodules the entry point of file f declares: each provides "x",
   with a score of its own below that of the primary module. *)
SubModules(f) ==
    [k \in 1 .. fs[f].nsub |->
        [cap |-> "x", score |-> fs[f].score - 10 * k - f]]

DescribeFile(f) ==
    Describe(f, fs[f].unloadable, fs[f].config, fs[f].cap, fs[f].score,
             SubModules(f))

(* module_StoreBank: prepend to modules.libs *)
module_StoreBank(l, lib) == <<lib>> \o l

module_InitStatic_KeepsUnloadable(described) ==
    IF described = NULL THEN NULL
    ELSE <<[described[1] EXCEPT !.loaded = TRUE]>>

(* module_InitStatic, given the descriptor its entry describes (or NULL) *)
module_InitStatic(described) ==
    IF described = NULL THEN NULL
    ELSE <<[described[1] EXCEPT !.loaded = TRUE, !.unloadable = FALSE]>>

(* module_InitStaticModules: every entry of vlc_static_modules[] that
   describes itself is stored; nstatic = 0 is the absent (weak) table. *)
RECURSIVE module_InitStaticModules(_, _, _)
module_InitStaticModules(l, i, nstatic) ==
    IF i > nstatic THEN l
    ELSE LET lib == module_InitStatic(
                        <<Describe(0 - i, TRUE, <<>>, "x", 50, <<>>)>>)
         IN module_InitStaticModules(module_StoreBank(l, lib[1]), i + 1, nstatic)

(* The file an absolute path names: its last component *)
FileOf(abspath) == abspath[Len(abspath)]

(* The OS dynamic linker as module_InitDynamic uses it.  os is
   [open, loads, handles, unloads]: the open handles per file, the log
   of the Load calls, of the handles they gave (NoHandle when the call
   failed) and of the Unload calls.  fs[f].sound tells whether f loads
   and describes itself; why is the failure met when it does not. *)
Linker(op) ==
    [open |-> op, loads |-> <<>>, handles |-> <<>>, unloads |-> <<>>]

module_Load(os, path, fast, why) ==
    LET f == FileOf(path)
        logged == [os EXCEPT !.loads = Append(@, <<f, fast>>)]
    IN IF ~fs[f].sound /\ why = "rejected"
       THEN [ok |-> FALSE, handle |-> NoHandle,
             os |-> [logged EXCEPT !.handles = Append(@, NoHandle)]]
       ELSE [ok |-> TRUE, handle |-> f,
             os |-> [logged EXCEPT !.open[f] = @ + 1,
                                   !.handles = Append(@, f)]]

module_Unload(os, h) ==
    [os EXCEPT !.open[h] = @ - 1, !.unloads = Append(@, h)]

Described_NoUnload(ld, path) ==
    IF ~ld.ok \/ ~fs[FileOf(path)].sound
    THEN [plugin |-> NULL, os |-> ld.os]
    ELSE [plugin |-> <<[DescribeFile(FileOf(path))
                          EXCEPT !.filename = path,
                                 !.handle = ld.handle,
                                 !.loaded = TRUE]>>,
          os |-> ld.os]

Described_NoHandle(ld, path) ==
    IF ~ld.ok THEN [plugin |-> NULL, os |-> ld.os]
    ELSE IF ~fs[FileOf(path)].sound
    THEN [plugin |-> NULL, os |-> module_Unload(ld.os, ld.handle)]
    ELSE [plugin |-> <<[DescribeFile(FileOf(path))
                          EXCEPT !.filename = path, !.loaded = TRUE]>>,
          os |-> ld.os]

Described_NotLoaded(ld, path) ==
    IF ~ld.ok THEN [plugin |-> NULL, os |-> ld.os]
    ELSE IF ~fs[FileOf(path)].sound
    THEN [plugin |-> NULL, os |-> module_Unload(ld.os, ld.handle)]
    ELSE [plugin |-> <<[DescribeFile(FileOf(path))
                          EXCEPT !.filename = path,
                                 !.handle = ld.handle]>>,
          os |-> ld.os]

(* module_InitDynamic once module_Load has returned ld: [plugin, os],
   plugin = NULL on failure *)
Described(ld, path) ==
    IF ~ld.ok THEN [plugin |-> NULL, os |-> ld.os]
    ELSE IF ~fs[FileOf(path)].sound
    THEN \* no entry point, no description or no memory: goto error
         [plugin |-> NULL, os |-> module_Unload(ld.os, ld.handle)]
    ELSE [plugin |-> <<[DescribeFile(FileOf(path))
                          EXCEPT !.filename = path,
                                 !.handle = ld.handle,
                                 !.loaded = TRUE]>>,
          os |-> ld.os]

(* module_InitDynamic *)
module_InitDynamic(os, path, fast, why) ==
    Described(module_Load(os, path, fast, why), path)

----------------------------------------------------------------------------
(* Plug-in cache *)

(* What the cache keeps of a descriptor: everything but the state of the
   running session. *)
CacheEntry(d) ==
    [d EXCEPT !.filename = NoPath, !.handle = NoHandle, !.loaded = FALSE]

(* CacheSave: the blob written for the search root; <<>> is a missing
   file, <<entries>> a blob holding entries. *)
CacheSave(plugins) ==
    <<[i \in 1 .. Len(plugins) |-> CacheEntry(plugins[i])]>>

(* vlc_cache_load: the entries of the blob; the blob joins the chain. *)
vlc_cache_load(blob, backing) ==
    IF blob = <<>> THEN [cache |-> <<>>, caches |-> backing]
    ELSE [cache |-> blob[1], caches |-> <<0>> \o backing]

(* vlc_cache_lookup: first entry with this path, mtime and size, detached
   from the list. *)
CacheMatches(e, relpath, st) ==
    e.path = relpath /\ e.mtime = st.mtime /\ e.size = st.size

vlc_cache_lookup(cache, relpath, st) ==
    LET hits == {i \in 1 .. Len(cache) : CacheMatches(cache[i], relpath, st)}
    IN IF hits = {} THEN [plugin |-> NULL, cache |-> cache]
       ELSE LET i == CHOOSE k \in hits : \A j \in hits : k <= j
            IN [plugin |-> <<cache[i]>>,
                cache |-> SubSeq(cache, 1, i - 1)
                          \o SubSeq(cache, i + 1, Len(cache))]

(* CacheAdd *)
CacheAdd(plugins, plugin) == Append(plugins, plugin)

----------------------------------------------------------------------------
(* Discovery.  b models module_bank_t together with what the scan reaches
   through globals: [mode, cache, plugins] are the fields of the bank,
   libs is modules.libs, os the dynamic linker, crashed tells that the
   process died, and results / destroyed / saved trace the calls of
   AllocatePluginFile, of vlc_plugin_destroy and of CacheSave. *)

(* The test of the config loop of AllocatePluginFile on one option: no
   list of choices and a list callback. *)
OptionHasCallback(o) == o.list_count = 0 /\ o.cb

HasCallback(config) ==
    \E i \in 1 .. Len(config) : OptionHasCallback(config[i])

(* stat() of a plug-in file *)
vlc_stat(f) == [mtime |-> fs[f].mtime, size |-> fs[f].size]

Returned(b, f, r) ==
    [b EXCEPT !.results = Append(@, [file |-> f, ret |-> r])]

(* The tail of AllocatePluginFile: module_StoreBank, CacheAdd, return 0 *)
StorePlugin(b, f, plugin) ==
    Returned([b EXCEPT !.libs = module_StoreBank(@, plugin),
                       !.plugins = IF b.mode # "IGNORE"
                                   THEN CacheAdd(@, plugin) ELSE @],
             f, 0)

CacheConsulted_OnReset(mode) == mode = "RESET"

(* The test that guards vlc_cache_lookup in AllocatePluginFile *)
CacheConsulted(mode) == mode = "USE"

(* AllocatePluginFile from the config loop on: a descriptor that is not
   loaded and has a callback option is destroyed and the file loaded
   again, with fast = false; then module_StoreBank and CacheAdd. *)
Reloaded(b, again, f) ==
    IF again.plugin = NULL THEN Returned([b EXCEPT !.os = again.os], f, 0 - 1)
    ELSE StorePlugin([b EXCEPT !.os = again.os], f, again.plugin[1])

ConfigLoop_NoReload(b, plugin, abspath, why) ==
    StorePlugin(b, FileOf(abspath), plugin)

ConfigLoop(b, plugin, abspath, why) ==
    IF ~plugin.loaded /\ HasCallback(plugin.config)
    THEN Reloaded([b EXCEPT !.destroyed = Append(@, plugin)],
                  module_InitDynamic(b.os, abspath, FALSE, why),
                  FileOf(abspath))
    ELSE StorePlugin(b, FileOf(abspath), plugin)

FreshLoad_NoStamp(b, dyn, abspath, relpath, st, why, ub) ==
    IF dyn.plugin = NULL
    THEN IF ub = "crash" THEN [b EXCEPT !.os = dyn.os, !.crashed = TRUE]
         ELSE Returned([b EXCEPT !.os = dyn.os], FileOf(abspath), 0 - 1)
    ELSE ConfigLoop([b EXCEPT !.os = dyn.os], dyn.plugin[1], abspath, why)

(* AllocatePluginFile when the cache gave nothing: dyn is what
   module_InitDynamic (fast = true) returned.  The path, mtime and size
   are stored before dyn.plugin is tested: with a NULL plugin, ub is what
   the write through the NULL pointer does in this build. *)
FreshLoad(b, dyn, abspath, relpath, st, why, ub) ==
    IF dyn.plugin = NULL
    THEN IF ub = "crash" THEN [b EXCEPT !.os = dyn.os, !.crashed = TRUE]
         ELSE Returned([b EXCEPT !.os = dyn.os], FileOf(abspath), 0 - 1)
    ELSE ConfigLoop([b EXCEPT !.os = dyn.os],
                    [dyn.plugin[1] EXCEPT !.path = relpath,
                                          !.mtime = st.mtime,
                                          !.size = st.size],
                    abspath, why)

(* AllocatePluginFile after the cache lookup lk = [plugin, cache] *)
AfterCacheLookup(b, lk, abspath, relpath, st, why, ub) ==
    IF lk.plugin # NULL
    THEN ConfigLoop([b EXCEPT !.cache = lk.cache],
                    [lk.plugin[1] EXCEPT !.filename = abspath],
                    abspath, why)
    ELSE FreshLoad(b, module_InitDynamic(b.os, abspath, TRUE, why),
                   abspath, relpath, st, why, ub)

(* AllocatePluginFile *)
AllocatePluginFile(b, abspath, relpath, st, why, ub) ==
    AfterCacheLookup(b,
                     IF CacheConsulted(b.mode)
                     THEN vlc_cache_lookup(b.cache, relpath, st)
                     ELSE [plugin |-> NULL, cache |-> b.cache],
                     abspath, relpath, st, why, ub)

(* readdir(): the plug-in files of the directory, then its subdirectory.
   reldir is <<>> for the root and <<sub1, ..., subk>> below it. *)
DirEntries(reldir) ==
    SetToSeq({f \in Files : fs[f].dir = Len(reldir)})
    \o (IF Len(reldir) < NestedDirs THEN <<SubDir(Len(reldir) + 1)>>
        ELSE <<>>)

IsRegular(entry) == entry \in Files

(* AllocatePluginDir and its loop over the directory entries *)
RECURSIVE AllocatePluginDir(_, _, _, _, _)
RECURSIVE ReadDirLoop(_, _, _, _, _, _)
AllocatePluginDir_NoDecrement(b, maxdepth, reldir, why, ub) ==
    IF maxdepth = 0 THEN b
    ELSE ReadDirLoop(b, maxdepth, reldir, DirEntries(reldir), why, ub)

AllocatePluginDir(b, maxdepth, reldir, why, ub) ==
    IF maxdepth = 0 THEN b
    ELSE ReadDirLoop(b, maxdepth - 1, reldir, DirEntries(reldir), why, ub)

ReadDirLoop(b, maxdepth, reldir, entries, why, ub) ==
    IF entries = <<>> \/ b.crashed THEN b
    ELSE LET file == Head(entries)
             relpath == Append(reldir, file)
             abspath == BaseDir \o relpath
             b1 == IF IsRegular(file)
                   THEN AllocatePluginFile(b, abspath, relpath,
                                           vlc_stat(file), why, ub)
                   ELSE AllocatePluginDir(b, maxdepth, relpath, why, ub)
         IN ReadDirLoop(b1, maxdepth, reldir, Tail(entries), why, ub)

DiscardUnmatched_KeepsEntries(b) ==
    IF b.crashed THEN b ELSE [b EXCEPT !.cache = <<>>]

(* AllocatePluginPath: discard the unmatched cache entries *)
DiscardUnmatched(b) ==
    IF b.crashed THEN b
    ELSE [b EXCEPT !.destroyed = @ \o b.cache, !.cache = <<>>]

(* AllocatePluginPath: CacheSave in RESET mode.  The result is the bank
   after the scan, the chain of blobs and the blob on disk. *)
SaveOnReset(b, backing, blob) ==
    IF b.mode = "RESET" /\ ~b.crashed
    THEN [bank |-> [b EXCEPT !.saved = Append(@, b.plugins)],
          caches |-> backing, blob |-> CacheSave(b.plugins)]
    ELSE [bank |-> b, caches |-> backing, blob |-> blob]

(* AllocatePluginPath once the cache is loaded, ld = [cache, caches] *)
ScanPath(ld, l, os, blob, mode, why, ub) ==
    SaveOnReset(
        DiscardUnmatched(
            AllocatePluginDir([mode |-> mode, cache |-> ld.cache,
                               plugins |-> <<>>, libs |-> l, os |-> os,
                               crashed |-> FALSE, results |-> <<>>,
                               destroyed |-> <<>>, saved |-> <<>>],
                              MaxDepth, NoPath, why, ub)),
        ld.caches, blob)

(* AllocatePluginPath *)
AllocatePluginPath(l, backing, os, blob, mode, why, ub) ==
    ScanPath(IF mode = "USE" THEN vlc_cache_load(blob, backing)
             ELSE [cache |-> <<>>, caches |-> backing],
             l, os, blob, mode, why, ub)

(* AllocateAllPlugins: the mode from the two configuration flags, then
   the scan of the plugins directory (VLC_PLUGIN_PATH is not set). *)
CacheMode(pluginsCache, resetPluginsCache) ==
    IF ~pluginsCache THEN "IGNORE"
    ELSE IF resetPluginsCache THEN "RESET"
    ELSE "USE"

AllocateAllPlugins(l, backing, os, blob, useCache, resetCache, why, ub) ==
    AllocatePluginPath(l, backing, os, blob,
                       CacheMode(useCache, resetCache), why, ub)

(* module_list_get: number of modules of the flat list *)
module_list_get(l) == SumSeq([i \in 1 .. Len(l) |-> 1 + l[i].nsub])

ModulesOf_PrimaryOnly(d) ==
    <<[plugin |-> d.name, index |-> 0, cap |-> d.cap, score |-> d.score]>>

(* The modules of a descriptor: lib->module, then the chain
   mod->submodule *)
ModulesOf(d) ==
    <<[plugin |-> d.name, index |-> 0, cap |-> d.cap, score |-> d.score]>>
    \o [k \in 1 .. Len(d.subs) |->
          [plugin |-> d.name, index |-> k,
           cap |-> d.subs[k].cap, score |-> d.subs[k].score]]

(* module_list_get: the table, filled along modules.libs *)
RECURSIVE ListTab(_)
ListTab(l) ==
    IF l = <<>> THEN <<>> ELSE ModulesOf(Head(l)) \o ListTab(Tail(l))

(* module_provides: the module advertises the capability *)
module_provides(m, cap) == m.cap = cap

(* The two passes of module_list_cap: the count, and the table before it
   is sorted *)
RECURSIVE CapTab(_, _)
CapTab(tab, cap) ==
    IF tab = <<>> THEN <<>>
    ELSE (IF module_provides(Head(tab), cap) THEN <<Head(tab)>> ELSE <<>>)
         \o CapTab(Tail(tab), cap)

(* modulecmp: the difference of two int, in the width of int *)
modulecmp(ma, mb) == WrapInt(mb.score - ma.score)

(* The orders of the elements in which no element compares greater than
   a later one; the order of elements that compare equal is open. *)
RECURSIVE Consistent(_)
Consistent(S) ==
    IF S = {} THEN {<<>>}
    ELSE UNION {{<<m>> \o rest : rest \in Consistent(S \ {m})} :
                  m \in {x \in S : \A y \in S : modulecmp(x, y) <= 0}}

RECURSIVE AnyOrder(_)
AnyOrder(S) ==
    IF S = {} THEN {<<>>}
    ELSE UNION {{<<m>> \o rest : rest \in AnyOrder(S \ {m})} : m \in S}

(* qsort with modulecmp: an order consistent with the comparisons; when
   the comparisons contradict one another there is none, and the table
   comes back in an order that is not specified. *)
Sorted(S, orders) == IF orders # {} THEN orders ELSE AnyOrder(S)

qsort(S) == Sorted(S, Consistent(S))

----------------------------------------------------------------------------
(* The bank lock *)

vlc_mutex_unlock(t) ==
    /\ lock' = 0
    /\ badUnlock' = (badUnlock \/ lock # t)

NoScan == [ran |-> FALSE]

NoMap == [called |-> FALSE]

NoList == [called |-> FALSE]

NoCall == [stage |-> "none"]

LockAfterInitBank_Released(t) == 0

(* The holder of modules.lock when module_InitBank returns: the unlock at
   its end is commented out. *)
LockAfterInitBank(t) == t

FirstActivation_AnyUser(u) == u >= 1

FirstActivation_SecondUser(u) == u <= 2

(* The test of module_LoadPlugins that lets enrollment and discovery run *)
FirstActivation(u) == u = 1

EndBankDetach_Always(u, l, c) ==
    [libs |-> <<>>, caches |-> <<>>, endLibs |-> l, endCaches |-> c]

EndBankDetach_KeepsCaches(u, l, c) ==
    IF u = 0
    THEN [libs |-> <<>>, caches |-> c, endLibs |-> l, endCaches |-> c]
    ELSE [libs |-> l, caches |-> c, endLibs |-> <<>>, endCaches |-> <<>>]

(* What module_EndBank does under the lock once usage, already
   decremented, is u: the bank and the local libs and caches. *)
EndBankDetach(u, l, c) ==
    IF u = 0
    THEN [libs |-> <<>>, caches |-> <<>>, endLibs |-> l, endCaches |-> c]
    ELSE [libs |-> l, caches |-> c, endLibs |-> <<>>, endCaches |-> <<>>]

(* module_InitBank: returns with modules.lock held *)
module_InitBank(t) ==
    /\ ~crashed
    /\ pc[t] = "idle"
    /\ lock = 0
    /\ \A f \in Files : open[f] < MaxOpen
    /\ lock' = LockAfterInitBank(t)
    /\ libs' = IF usage = 0
               THEN module_StoreBank(libs,
                        module_InitStatic(
                            <<Describe(CoreName, TRUE, <<>>, NoCap, 0,
                                       <<>>)>>)[1])
               ELSE libs
    /\ usage' = usage + 1
    /\ pc' = [pc EXCEPT ![t] = "inited"]
    /\ mapped' = NoMap
    /\ listed' = NoList
    /\ UNCHANGED <<mapLock, mapCall>>
    /\ UNCHANGED <<caches, endLibs, endCaches, ret, fs, cacheFile, open,
                   statics, scan, badUnlock, crashed>>

(* module_LoadPlugins when usage is 1: r is what AllocateAllPlugins has
   made of the bank; a scan that killed the process never unlocks. *)
LoadPluginsScanned(t, r) ==
    /\ libs' = r.bank.libs
    /\ caches' = r.caches
    /\ open' = r.bank.os.open
    /\ cacheFile' = r.blob
    /\ scan' = [ran |-> TRUE, mode |-> r.bank.mode,
                loads |-> r.bank.os.loads,
                handles |-> r.bank.os.handles,
                unloads |-> r.bank.os.unloads,
                results |-> r.bank.results,
                destroyed |-> r.bank.destroyed,
                plugins |-> r.bank.plugins,
                saved |-> r.bank.saved,
                cache |-> r.bank.cache]
    /\ crashed' = r.bank.crashed
    /\ IF r.bank.crashed
       THEN /\ pc' = [pc EXCEPT ![t] = "crashed"]
            /\ UNCHANGED <<lock, badUnlock>>
       ELSE /\ pc' = [pc EXCEPT ![t] = "counting"]
            /\ vlc_mutex_unlock(t)

(* module_LoadPlugins up to vlc_mutex_unlock *)
module_LoadPlugins(t) ==
    /\ ~crashed
    /\ pc[t] = "inited"
    /\ \E useCache \in BOOLEAN, resetCache \in BOOLEAN,
          why \in Failures, ub \in UBOutcomes :
         IF FirstActivation(usage)
         THEN LoadPluginsScanned(t,
                  AllocateAllPlugins(
                      module_InitStaticModules(libs, 1, statics), caches,
                      Linker(open), cacheFile,
                      useCache, resetCache, why, ub))
         ELSE /\ pc' = [pc EXCEPT ![t] = "counting"]
              /\ vlc_mutex_unlock(t)
              /\ UNCHANGED <<libs, caches, open, cacheFile, scan, crashed>>
    /\ mapped' = NoMap
    /\ listed' = NoList
    /\ UNCHANGED <<mapLock, mapCall>>
    /\ UNCHANGED <<usage, endLibs, endCaches, ret, fs, statics>>

(* module_LoadPlugins after the unlock: count the modules, return *)
LoadPluginsCount(t) ==
    /\ ~crashed
    /\ pc[t] = "counting"
    /\ ret' = [ret EXCEPT ![t] = module_list_get(libs)]
    /\ pc' = [pc EXCEPT ![t] = "ready"]
    /\ mapped' = NoMap
    /\ listed' = NoList
    /\ UNCHANGED <<mapLock, mapCall>>
    /\ UNCHANGED <<lock, libs, caches, usage, endLibs, endCaches, fs,
                   cacheFile, open, statics, scan, badUnlock, crashed>>

(* module_EndBank up to vlc_mutex_unlock.  With b_plugins the caller has
   loaded the plug-ins and takes the lock; without, it still holds it. *)
module_EndBank(t, b_plugins) ==
    /\ ~crashed
    /\ IF b_plugins THEN pc[t] = "ready" /\ lock = 0
       ELSE pc[t] = "inited"
    /\ usage > 0
    /\ usage' = usage - 1
    /\ LET d == EndBankDetach(usage - 1, libs, caches)
       IN /\ libs' = d.libs
          /\ caches' = d.caches
          /\ endLibs' = [endLibs EXCEPT ![t] = d.endLibs]
          /\ endCaches' = [endCaches EXCEPT ![t] = d.endCaches]
    /\ scan' = IF usage - 1 = 0 THEN NoScan ELSE scan
    /\ lock' = 0
    /\ badUnlock' = (badUnlock \/ (IF b_plugins THEN t ELSE lock) # t)
    /\ pc' = [pc EXCEPT ![t] = "ending"]
    /\ mapped' = NoMap
    /\ listed' = NoList
    /\ UNCHANGED <<mapLock, mapCall>>
    /\ UNCHANGED <<ret, fs, cacheFile, open, statics, crashed>>

(* The walk of the detached list: unload what may be unloaded *)
RECURSIVE UnloadAll(_, _)
UnloadAll_KeepsHandles(os, l) == os

UnloadAll(os, l) ==
    IF l = <<>> THEN os
    ELSE LET lib == Head(l)
         IN UnloadAll(IF lib.loaded /\ lib.unloadable
                      THEN module_Unload(os, lib.handle) ELSE os,
                      Tail(l))

(* module_EndBank after the unlock: destroy the detached descriptors and
   release the detached blobs *)
EndBankDestroy(t) ==
    /\ ~crashed
    /\ pc[t] = "ending"
    /\ open' = UnloadAll(Linker(open), endLibs[t]).open
    /\ endLibs' = [endLibs EXCEPT ![t] = <<>>]
    /\ endCaches' = [endCaches EXCEPT ![t] = <<>>]
    /\ pc' = [pc EXCEPT ![t] = "idle"]
    /\ ret' = [ret EXCEPT ![t] = 0]
    /\ mapped' = NoMap
    /\ listed' = NoList
    /\ UNCHANGED <<mapLock, mapCall>>
    /\ UNCHANGED <<lock, libs, caches, usage, fs, cacheFile, statics,
                   scan, badUnlock, crashed>>

(* CacheMerge: the handle of the fresh module moves to the cached one *)
CacheMerge(cached, fresh) ==
    [cached EXCEPT !.handle = fresh.handle, !.loaded = TRUE]

Mapped_NoMerge(i, uncache) ==
    /\ open' = uncache.os.open
    /\ libs' = libs
    /\ mapped' = [called |-> TRUE, lib |-> i,
                  ret |-> IF uncache.plugin # NULL THEN 0 ELSE 0 - 1,
                  loads |-> uncache.os.loads,
                  handles |-> uncache.os.handles,
                  unloads |-> uncache.os.unloads]

Mapped_ReturnsZero(i, uncache) ==
    /\ open' = uncache.os.open
    /\ libs' = IF uncache.plugin # NULL
               THEN [libs EXCEPT ![i] = CacheMerge(@, uncache.plugin[1])]
               ELSE libs
    /\ mapped' = [called |-> TRUE, lib |-> i, ret |-> 0,
                  loads |-> uncache.os.loads,
                  handles |-> uncache.os.handles,
                  unloads |-> uncache.os.unloads]

(* module_Map once module_InitDynamic has returned uncache: the merge,
   and -(module == NULL) returned *)
Mapped(i, uncache) ==
    /\ open' = uncache.os.open
    /\ libs' = IF uncache.plugin # NULL
               THEN [libs EXCEPT ![i] = CacheMerge(@, uncache.plugin[1])]
               ELSE libs
    /\ mapped' = [called |-> TRUE, lib |-> i,
                  ret |-> IF uncache.plugin # NULL THEN 0 ELSE 0 - 1,
                  loads |-> uncache.os.loads,
                  handles |-> uncache.os.handles,
                  unloads |-> uncache.os.unloads]

(* module_Map on the plug-in at position i of modules.libs *)
module_Map(t, i) ==
    /\ ~crashed
    /\ pc[t] = "ready"
    /\ i \in 1 .. Len(libs)
    /\ IF ~libs[i].loaded
       THEN \E why \in Failures :
              Mapped(i, module_InitDynamic(Linker(open), libs[i].filename,
                                           FALSE, why))
       ELSE /\ mapped' = [called |-> TRUE, lib |-> i, ret |-> 0,
                          loads |-> <<>>, handles |-> <<>>,
                          unloads |-> <<>>]
            /\ UNCHANGED <<libs, open>>
    /\ listed' = NoList
    /\ UNCHANGED <<mapLock, mapCall>>
    /\ UNCHANGED <<lock, caches, usage, pc, endLibs, endCaches, ret, fs,
                   cacheFile, statics, scan, badUnlock, crashed>>

(* module_Map step by step, for threads that call it concurrently.  The
   locals of the call of thread t are in mapCall[t]: lib is the position
   of module->plugin in modules.libs, uncache what module_InitDynamic
   returned, module whether the local `module' is still non-NULL. *)

vlc_mutex_lock_NoWait(t) == mapLock' = t

(* vlc_mutex_lock(&lock) on the static lock of module_Map: returns once
   no thread holds it *)
vlc_mutex_lock(t) == mapLock = 0 /\ mapLock' = t

(* The call, up to the lock: plugin = module->plugin *)
MapCall(t, i) ==
    /\ ~crashed
    /\ pc[t] = "ready"
    /\ i \in 1 .. Len(libs)
    /\ pc' = [pc EXCEPT ![t] = "mapping"]
    /\ mapCall' = [mapCall EXCEPT ![t] = [stage |-> "called", lib |-> i]]
    /\ mapped' = NoMap
    /\ listed' = NoList
    /\ UNCHANGED <<lock, libs, caches, usage, endLibs, endCaches, ret, fs,
                   cacheFile, open, statics, scan, badUnlock, crashed,
                   mapLock>>

MapEnter(t) ==
    /\ mapCall[t].stage = "called"
    /\ vlc_mutex_lock(t)
    /\ mapCall' = [mapCall EXCEPT ![t].stage = "locked"]
    /\ mapped' = NoMap
    /\ listed' = NoList
    /\ UNCHANGED <<lock, libs, caches, usage, pc, endLibs, endCaches, ret,
                   fs, cacheFile, open, statics, scan, badUnlock, crashed>>

(* module_InitDynamic has returned uncache to the call of t *)
MapLoaded(t, i, uncache) ==
    /\ open' = uncache.os.open
    /\ mapCall' = [mapCall EXCEPT ![t] =
                       [stage |-> "loaded", lib |-> i,
                        uncache |-> uncache.plugin,
                        loads |-> uncache.os.loads,
                        handles |-> uncache.os.handles,
                        unloads |-> uncache.os.unloads]]

(* The test of b_loaded and, on a descriptor that is not loaded, the call
   of module_InitDynamic with fast = false *)
MapLoad(t) ==
    /\ mapCall[t].stage = "locked"
    /\ IF ~libs[mapCall[t].lib].loaded
       THEN \E why \in Failures :
              MapLoaded(t, mapCall[t].lib,
                        module_InitDynamic(Linker(open),
                                           libs[mapCall[t].lib].filename,
                                           FALSE, why))
       ELSE /\ mapCall' = [mapCall EXCEPT ![t] =
                              [stage |-> "unlocking", lib |-> mapCall[t].lib,
                               module |-> TRUE, loads |-> <<>>,
                               handles |-> <<>>, unloads |-> <<>>]]
            /\ open' = open
    /\ mapped' = NoMap
    /\ listed' = NoList
    /\ UNCHANGED <<lock, libs, caches, usage, pc, endLibs, endCaches, ret,
                   fs, cacheFile, statics, scan, badUnlock, crashed,
                   mapLock>>

(* CacheMerge and vlc_plugin_destroy(uncache), or module = NULL *)
MapMerge(t) ==
    /\ mapCall[t].stage = "loaded"
    /\ libs' = IF mapCall[t].uncache # NULL
               THEN [libs EXCEPT ![mapCall[t].lib] =
                        CacheMerge(@, mapCall[t].uncache[1])]
               ELSE libs
    /\ mapCall' = [mapCall EXCEPT ![t] =
                       [stage |-> "unlocking", lib |-> mapCall[t].lib,
                        module |-> mapCall[t].uncache # NULL,
                        loads |-> mapCall[t].loads,
                        handles |-> mapCall[t].handles,
                        unloads |-> mapCall[t].unloads]]
    /\ mapped' = NoMap
    /\ listed' = NoList
    /\ UNCHANGED <<lock, caches, usage, pc, endLibs, endCaches, ret, fs,
                   cacheFile, open, statics, scan, badUnlock, crashed,
                   mapLock>>

(* vlc_mutex_unlock(&lock); return -(module == NULL) *)
MapUnlock(t) ==
    /\ mapCall[t].stage = "unlocking"
    /\ mapLock' = 0
    /\ pc' = [pc EXCEPT ![t] = "ready"]
    /\ mapped' = [called |-> TRUE, lib |-> mapCall[t].lib,
                  ret |-> IF mapCall[t].module THEN 0 ELSE 0 - 1,
                  loads |-> mapCall[t].loads,
                  handles |-> mapCall[t].handles,
                  unloads |-> mapCall[t].unloads]
    /\ mapCall' = [mapCall EXCEPT ![t] = NoCall]
    /\ listed' = NoList
    /\ UNCHANGED <<lock, libs, caches, usage, endLibs, endCaches, ret, fs,
                   cacheFile, open, statics, scan, badUnlock, crashed>>

(* module_list_get called by a thread that has loaded the plug-ins *)
ListGet(t) ==
    /\ ~crashed
    /\ pc[t] = "ready"
    /\ listed' = [called |-> TRUE, cap |-> NoCap,
                  ret |-> module_list_get(libs), list |-> ListTab(libs)]
    /\ mapped' = NoMap
    /\ UNCHANGED <<mapLock, mapCall>>
    /\ UNCHANGED <<lock, libs, caches, usage, pc, endLibs, endCaches, ret,
                   fs, cacheFile, open, statics, scan, badUnlock, crashed>>

(* module_list_cap called by a thread that has loaded the plug-ins *)
module_list_cap(t, cap) ==
    /\ ~crashed
    /\ pc[t] = "ready"
    /\ \E sorted \in qsort(Range(CapTab(ListTab(libs), cap))) :
          listed' = [called |-> TRUE, cap |-> cap,
                     ret |-> Len(CapTab(ListTab(libs), cap)),
                     list |-> sorted]
    /\ mapped' = NoMap
    /\ UNCHANGED <<mapLock, mapCall>>
    /\ UNCHANGED <<lock, libs, caches, usage, pc, endLibs, endCaches, ret,
                   fs, cacheFile, open, statics, scan, badUnlock, crashed>>

----------------------------------------------------------------------------
(* Initial states: an empty bank, and a search root drawn from bounded
   sets of plug-in files and cache blobs. *)

RelPathOf(f) == [k \in 1 .. fs[f].dir |-> SubDir(k)] \o <<f>>

NoConfig == <<>>
CallbackOption == <<[list_count |-> 0, cb |-> TRUE]>>
ListOption == <<[list_count |-> 2, cb |-> TRUE]>>

FileChoices(dirs, sounds, configs, subs) ==
    [dir : dirs, sound : sounds, config : configs, nsub : subs,
     unloadable : {TRUE}, mtime : {2}, size : {2},
     cap : {"x"}, score : {50}]

(* The cache entry a former run has left for file f; "fresh" still
   matches the file, the others were written for an older file. *)
CacheSelections == {"none", "fresh", "oldmtime", "oldsize"}

FormerEntry(f, sel) ==
    [DescribeFile(f) EXCEPT
        !.path = RelPathOf(f),
        !.mtime = IF sel = "oldmtime" THEN fs[f].mtime - 1 ELSE fs[f].mtime,
        !.size = IF sel = "oldsize" THEN fs[f].size - 1 ELSE fs[f].size]

FormerBlob(sel) ==
    LET cachedFiles == SetToSeq({f \in Files : sel[f] # "none"})
    IN IF cachedFiles = <<>> THEN <<>>
       ELSE <<[i \in 1 .. Len(cachedFiles) |->
                 FormerEntry(cachedFiles[i], sel[cachedFiles[i]])]>>

InitWith(running, choices, selections, tables) ==
    /\ lock = 0
    /\ libs = <<>>
    /\ caches = <<>>
    /\ usage = 0
    /\ pc = [t \in Threads |-> IF t \in running THEN "idle" ELSE "absent"]
    /\ endLibs = [t \in Threads |-> <<>>]
    /\ endCaches = [t \in Threads |-> <<>>]
    /\ ret = [t \in Threads |-> 0]
    /\ fs \in [Files -> choices]
    /\ \E sel \in [Files -> selections] : cacheFile = FormerBlob(sel)
    /\ open = [f \in Files |-> 0]
    /\ statics \in tables
    /\ scan = NoScan
    /\ badUnlock = FALSE
    /\ mapped = NoMap
    /\ listed = NoList
    /\ crashed = FALSE
    /\ mapLock = 0
    /\ mapCall = [t \in Threads |-> NoCall]

Next ==
    \E t \in Threads :
        \/ module_InitBank(t)
        \/ module_LoadPlugins(t)
        \/ LoadPluginsCount(t)
        \/ module_EndBank(t, TRUE)
        \/ module_EndBank(t, FALSE)
        \/ EndBankDestroy(t)
        \/ \E i \in 1 .. NFiles + MaxStatic + 1 : module_Map(t, i)

(* The blob a former run has left: none, or one with a fresh entry for
   every file *)
WholeBlobs == {<<>>, FormerBlob([f \in Files |-> "fresh"])}

(* Every thread uses the bank; plug-ins sit in the root directory. *)
Init ==
    /\ InitWith(Threads,
                FileChoices({0}, BOOLEAN, {NoConfig}, {0}),
                {"none", "fresh"}, {MaxStatic})
    /\ cacheFile \in WholeBlobs

Spec == Init /\ [][Next]_vars

(* One thread, every kind of cache entry and of config option. *)
ScanInit ==
    InitWith({1},
             FileChoices({0}, BOOLEAN,
                         {NoConfig, CallbackOption, ListOption}, {0}),
             CacheSelections, {0})

ScanSpec == ScanInit /\ [][Next]_vars

(* One thread, plug-ins at every depth below the root. *)
WalkInit ==
    InitWith({1},
             FileChoices({0, MaxDepth - 1, MaxDepth, MaxDepth + 1},
                         BOOLEAN, {NoConfig}, 0 .. MaxSub),
             {"none"}, {0})

WalkSpec == WalkInit /\ [][Next]_vars

(* One thread that also enumerates; plug-ins of every capability and
   score, with submodules; files may be missing from the root. *)
Absent == 0 - 1

ListChoices ==
    {c \in [dir : {Absent, 0}, sound : {TRUE}, config : {NoConfig},
            nsub : {0, MaxSub}, unloadable : {TRUE}, mtime : {2},
            size : {2}, cap : Caps, score : {50, 80}] :
        c.dir = Absent => (c.nsub = 0 /\ c.cap = "x" /\ c.score = 50)}

ListInit == InitWith({1}, ListChoices, {"none"}, {0, MaxStatic})

ListNext ==
    \/ Next
    \/ \E t \in Threads :
          \/ ListGet(t)
          \/ \E cap \in Caps : module_list_cap(t, cap)

ListSpec == ListInit /\ [][ListNext]_vars

(* Two threads use the bank; plug-ins may forbid unloading. *)
EndChoices ==
    [dir : {0}, sound : {TRUE}, config : {NoConfig}, nsub : {0},
     unloadable : BOOLEAN, mtime : {2}, size : {2}, cap : {"x"},
     score : {50}]

EndInit ==
    /\ InitWith({1, 2}, EndChoices, {"none", "fresh"}, {MaxStatic})
    /\ cacheFile \in WholeBlobs

EndSpec == EndInit /\ [][Next]_vars

(* Every thread maps the plug-ins of a bank enrolled from the cache, step
   by step. *)
MapInit ==
    InitWith(Threads, FileChoices({0}, BOOLEAN, {NoConfig}, {0}),
             {"fresh"}, {0})

MapNext ==
    \E t \in Threads :
        \/ module_InitBank(t)
        \/ module_LoadPlugins(t)
        \/ LoadPluginsCount(t)
        \/ module_EndBank(t, TRUE)
        \/ module_EndBank(t, FALSE)
        \/ EndBankDestroy(t)
        \/ \E i \in 1 .. NFiles + 1 : MapCall(t, i)
        \/ MapEnter(t)
        \/ MapLoad(t)
        \/ MapMerge(t)
        \/ MapUnlock(t)

MapSpec == MapInit /\ [][MapNext]_vars

(* One thread enumerates a bank whose plug-ins declare scores from the
   whole range of int. *)
SortChoices ==
    [dir : {0}, sound : {TRUE}, config : {NoConfig}, nsub : {0},
     unloadable : {TRUE}, mtime : {2}, size : {2}, cap : Caps,
     score : {INT_MIN, 0, 50, INT_MAX}]

SortInit == InitWith({1}, SortChoices, {"none"}, {0})

SortSpec == SortInit /\ [][ListNext]_vars

TypeOK ==
    /\ lock \in 0 .. NThreads
    /\ usage \in 0 .. NThreads
    /\ \A f \in Files : open[f] >= 0

----------------------------------------------------------------------------
(* Properties *)

Running == {t \in Threads : pc[t] # "absent"}

(* The list structure of modules.libs: which descriptors, in which order *)
LibNames(l) == [i \in 1 .. Len(l) |-> l[i].name]

BankEmpty == usage = 0 /\ libs = <<>> /\ caches = <<>> /\ lock = 0

EndBankStep(t) == pc[t] \in {"ready", "inited"} /\ pc'[t] = "ending"

(* C1: reference-counted lifecycle.  Whenever every thread is back from
   its last module_EndBank the bank is as before the first module_InitBank
   (usage 0, no descriptor, no blob, lock free); a module_EndBank that
   leaves usage above 0 changes neither libs nor caches and takes nothing
   to destroy; and descriptors are taken for destruction only by the
   module_EndBank that brings usage to 0. *)
C1_Lifecycle ==
    /\ []((\A t \in Running : pc[t] = "idle") => BankEmpty)
    /\ [][\A t \in Threads :
            /\ (EndBankStep(t) /\ usage' > 0) =>
                   /\ libs' = libs /\ caches' = caches
                   /\ endLibs'[t] = <<>> /\ endCaches'[t] = <<>>
                   /\ open' = open
            /\ (EndBankStep(t) /\ usage' = 0) =>
                   /\ endLibs'[t] = libs /\ endCaches'[t] = caches
                   /\ libs' = <<>> /\ caches' = <<>>
            /\ (endLibs'[t] # endLibs[t] /\ endLibs'[t] # <<>>) =>
                   (EndBankStep(t) /\ usage' = 0)
            /\ (pc[t] = "ending" /\ pc'[t] = "idle" /\ endLibs[t] = <<>>)
                   => open' = open
        ]_vars

(* A nested pair has ended while another user keeps the bank alive. *)
C1_Witness ==
    \E t1 \in Threads, t2 \in Threads :
        /\ pc[t1] = "ending" /\ endLibs[t1] = <<>>
        /\ pc[t2] = "ready" /\ usage = 1 /\ Len(libs) > 1

(* C2: staged locking.  A thread between its module_InitBank and its
   module_LoadPlugins or module_EndBank(false) holds modules.lock; while
   it does, no step of another thread changes the lock, usage, caches or
   the list libs; and no thread unlocks modules.lock without holding it. *)
C2_StagedLocking ==
    /\ [](\A t \in Threads : pc[t] = "inited" => lock = t)
    /\ [](~badUnlock)
    /\ [][\A t \in Threads :
            /\ (pc[t] = "inited" /\ pc'[t] = "inited") =>
                  (lock' = lock /\ usage' = usage /\ caches' = caches
                   /\ LibNames(libs') = LibNames(libs))
            /\ (lock = t /\ lock' # t) =>
                  (pc[t] = "inited" /\ pc'[t] \in {"counting", "ending"})
        ]_vars

(* A thread holds the lock after module_InitBank while another thread,
   back from module_LoadPlugins, waits to enter module_EndBank. *)
C2_Witness ==
    \E t1 \in Threads, t2 \in Threads :
        pc[t1] = "inited" /\ lock = t1 /\ pc[t2] = "ready" /\ usage = 2

Reading(p) == p \in {"counting", "ready"}

(* C3: read after load.  From the unlock of a thread's
   module_LoadPlugins until that thread enters module_EndBank, no step of
   any thread prepends to modules.libs, detaches it or empties it. *)
C3_ReadOnlyAfterLoad ==
    [][(\E t \in Threads : Reading(pc[t]) /\ Reading(pc'[t]))
          => LibNames(libs') = LibNames(libs)]_vars

(* One thread enumerates while another is inside module_LoadPlugins'
   counting step, the bank holding plug-ins besides the core. *)
C3_Witness ==
    \E t1 \in Threads, t2 \in Threads :
        /\ pc[t1] = "ready" /\ pc[t2] = "counting"
        /\ usage = 2 /\ Len(libs) > 1

(* What the trace of the discovery run tells about file f *)
Entries(blob) == IF blob = <<>> THEN {} ELSE Range(blob[1])

LoadCalled(f) == \E k \in 1 .. Len(scan.loads) : scan.loads[k][1] = f

Scanned(f) == \E k \in 1 .. Len(scan.results) : scan.results[k].file = f

ReturnedFor(f, r) ==
    \E k \in 1 .. Len(scan.results) :
        scan.results[k] = [file |-> f, ret |-> r]

InLibs(f) == \E i \in 1 .. Len(libs) : libs[i].name = f

(* The walker reaches the directory of f *)
WithinReach(f) == fs[f].dir < MaxDepth

(* C4: a plug-in file that yields no descriptor is skipped.  Whenever
   module_InitDynamic has failed on a file during discovery, the process
   is alive, AllocatePluginFile has returned -1 for the file and has not
   enrolled it, every file within reach of the walker has been scanned
   once module_LoadPlugins is past its unlock, and the count returned by
   module_LoadPlugins is that of the descriptors in libs. *)
C4_BrokenPluginSkipped ==
    /\ ~crashed
    /\ scan.ran =>
          \A f \in Files :
             (LoadCalled(f) /\ ~fs[f].sound) =>
                 (ReturnedFor(f, 0 - 1) /\ ~InLibs(f))
    /\ \A t \in Threads :
          (Reading(pc[t]) /\ scan.ran) =>
              \A f \in Files : WithinReach(f) => Scanned(f)
    /\ \A t \in Threads :
          pc[t] = "ready" => ret[t] = module_list_get(libs)

(* C5 as stated: once module_LoadPlugins has returned, a sound plug-in
   file in the fifth nested subdirectory is enrolled and one in the sixth
   is not. *)
C5_FifthSubdirEnrolled ==
    \A t \in Threads : \A f \in Files :
        (Reading(pc[t]) /\ fs[f].sound) =>
            /\ fs[f].dir = MaxDepth => InLibs(f)
            /\ fs[f].dir = MaxDepth + 1 => ~InLibs(f)

(* C5, amended: once module_LoadPlugins has returned, every sound plug-in
   file at most four subdirectories below the root is enrolled, and no
   file in the fifth nested subdirectory or deeper is. *)
C5_FourthSubdirEnrolled ==
    \A t \in Threads : \A f \in Files :
        Reading(pc[t]) =>
            /\ (fs[f].sound /\ fs[f].dir <= MaxDepth - 1) => InLibs(f)
            /\ fs[f].dir >= MaxDepth => ~InLibs(f)

(* A file in sub4 is enrolled while a sound file in sub5 is not. *)
C5_Witness ==
    \E t \in Threads, f \in Files, g \in Files :
        /\ pc[t] = "ready"
        /\ fs[f].dir = MaxDepth - 1 /\ InLibs(f)
        /\ fs[g].dir = MaxDepth /\ fs[g].sound /\ ~InLibs(g)

InitBankStep(t) == pc[t] = "idle" /\ pc'[t] = "inited"

(* C6: static core.  After the module_InitBank that raises usage from 0
   to 1, libs holds exactly the core descriptor, loaded and not
   unloadable; a module_InitBank entered with usage above 0 leaves libs
   as it is. *)
C6_StaticCore ==
    /\ [](\A t \in Threads :
            (pc[t] = "inited" /\ usage = 1) =>
               /\ Len(libs) = 1
               /\ libs[1].name = CoreName
               /\ libs[1].loaded
               /\ ~libs[1].unloadable)
    /\ [][\A t \in Threads :
            (InitBankStep(t) /\ usage > 0) => libs' = libs]_vars

(* The bank right after its first module_InitBank. *)
C6_Witness ==
    \E t \in Threads :
        pc[t] = "inited" /\ usage = 1 /\ Len(libs) = 1 /\ lock = t

(* C7: with modules.lock free, usage is 0 exactly when libs and caches
   are both empty. *)
C7_UsageZeroIffEmpty ==
    lock = 0 => (usage = 0 <=> (libs = <<>> /\ caches = <<>>))

(* The last module_EndBank has just detached descriptors and a blob. *)
C7_Witness ==
    /\ lock = 0 /\ usage = 0 /\ libs = <<>> /\ caches = <<>>
    /\ \E t \in Threads :
          pc[t] = "ending" /\ endLibs[t] # <<>> /\ endCaches[t] # <<>>

(* A descriptor holds a handle the OS has open on its own file *)
ValidHandle(d) ==
    /\ d.handle # NoHandle
    /\ d.filename # NoPath
    /\ d.handle = FileOf(d.filename)
    /\ open[d.handle] > 0

IsStatic(d) == d.name \notin Files

(* C8 as stated: every descriptor in libs that is loaded holds a valid
   handle, and every one that is not loaded holds none. *)
C8_LoadedIffHandle ==
    \A i \in 1 .. Len(libs) :
        /\ libs[i].loaded => ValidHandle(libs[i])
        /\ ~libs[i].loaded => libs[i].handle = NoHandle

(* C8, amended: every descriptor in libs that comes from a plug-in file
   (freshly loaded, resurrected from the cache or promoted by module_Map)
   holds a valid handle exactly when it is loaded, and none when it is
   not; the statically linked descriptors (the core, the static plug-ins)
   are loaded and hold no handle. *)
C8_DynamicLoadedIffHandle ==
    \A i \in 1 .. Len(libs) :
        IF IsStatic(libs[i])
        THEN libs[i].loaded /\ libs[i].handle = NoHandle
        ELSE /\ libs[i].loaded <=> ValidHandle(libs[i])
             /\ ~libs[i].loaded => libs[i].handle = NoHandle

(* module_Map has promoted a descriptor enrolled from the cache: it is
   loaded and holds a handle although discovery loaded nothing; another
   descriptor is still unloaded, next to the core. *)
C8_Witness ==
    /\ scan.ran /\ scan.loads = <<>>
    /\ \E i \in 1 .. Len(libs), j \in 1 .. Len(libs), k \in 1 .. Len(libs) :
          /\ ~IsStatic(libs[i]) /\ libs[i].loaded /\ ValidHandle(libs[i])
          /\ ~IsStatic(libs[j]) /\ ~libs[j].loaded
          /\ IsStatic(libs[k])

AfterScan(p) == p \in {"counting", "crashed"}

(* C9: cache hit avoids load.  Right after a discovery run in USE mode,
   for every scanned file whose path, mtime and size match an entry of
   the cache blob that has no callback option, libs holds that entry
   with the absolute path of the file stamped, not loaded, and the run
   has made no Load call for the file. *)
C9_CacheHitAvoidsLoad ==
    \A t \in Threads : \A f \in Files : \A e \in Entries(cacheFile) :
        (/\ AfterScan(pc[t]) /\ scan.ran /\ scan.mode = "USE"
         /\ Scanned(f)
         /\ CacheMatches(e, RelPathOf(f), vlc_stat(f))
         /\ ~HasCallback(e.config))
        => /\ \E i \in 1 .. Len(libs) :
                /\ libs[i] = [e EXCEPT !.filename = BaseDir \o RelPathOf(f)]
                /\ ~libs[i].loaded
           /\ ~LoadCalled(f)

(* A USE run has enrolled a file from its cache entry without loading
   it, while it had to load another file. *)
C9_Witness ==
    \E t \in Threads, f \in Files, g \in Files :
        /\ pc[t] = "counting" /\ scan.ran /\ scan.mode = "USE"
        /\ Scanned(f) /\ InLibs(f) /\ ~LoadCalled(f)
        /\ \E i \in 1 .. Len(libs) : libs[i].name = f /\ ~libs[i].loaded
        /\ LoadCalled(g)

Stale(e, f) ==
    /\ e.path = RelPathOf(f)
    /\ (e.mtime # fs[f].mtime \/ e.size # fs[f].size)

(* C10: cache invalidation.  After a discovery run in USE mode, for every
   file within reach of the walker whose cache entry has the path of the
   file but another mtime or size: the file was loaded with fast = true,
   any descriptor enrolled for the file carries the mtime and size of
   the file, and the stale entry was destroyed and is not in libs. *)
C10_StaleEntryDiscarded ==
    \A f \in Files : \A e \in Entries(cacheFile) :
        (/\ scan.ran /\ scan.mode = "USE"
         /\ WithinReach(f) /\ Stale(e, f))
        => /\ <<f, TRUE>> \in Range(scan.loads)
           /\ \A i \in 1 .. Len(libs) :
                 libs[i].name = f =>
                    /\ libs[i].path = RelPathOf(f)
                    /\ libs[i].mtime = fs[f].mtime
                    /\ libs[i].size = fs[f].size
           /\ e \in Range(scan.destroyed)
           /\ \A i \in 1 .. Len(libs) : CacheEntry(libs[i]) # e

DeclaresCallback(d) ==
    \E k \in 1 .. Len(d.config) : d.config[k].cb

DeclaresListCallback(d) ==
    \E k \in 1 .. Len(d.config) :
        d.config[k].cb /\ d.config[k].list_count = 0

CacheHit(f) ==
    \E e \in Entries(cacheFile) :
        CacheMatches(e, RelPathOf(f), vlc_stat(f))

(* C11 as stated: after a discovery run, every descriptor in libs with an
   option that carries a list callback pointer is loaded. *)
C11_CallbackLoaded ==
    scan.ran =>
        \A i \in 1 .. Len(libs) : DeclaresCallback(libs[i]) => libs[i].loaded

(* C11, amended: after a discovery run, every descriptor in libs with an
   option that carries a list callback pointer and no list of choices
   (list_count = 0) is loaded; in USE mode a file whose cache entry has
   such an option was loaded again with fast = false, its cache entry was
   destroyed, and the file is enrolled exactly when that load succeeded,
   AllocatePluginFile returning -1 when it failed. *)
C11_ListCallbackLoaded ==
    scan.ran =>
        /\ \A i \in 1 .. Len(libs) :
               DeclaresListCallback(libs[i]) => libs[i].loaded
        /\ \A f \in Files : \A e \in Entries(cacheFile) :
               (/\ scan.mode = "USE" /\ Scanned(f)
                /\ CacheMatches(e, RelPathOf(f), vlc_stat(f))
                /\ DeclaresListCallback(e))
               => /\ <<f, FALSE>> \in Range(scan.loads)
                  /\ <<f, TRUE>> \notin Range(scan.loads)
                  /\ [e EXCEPT !.filename = BaseDir \o RelPathOf(f)]
                        \in Range(scan.destroyed)
                  /\ IF fs[f].sound THEN InLibs(f) /\ ReturnedFor(f, 0)
                     ELSE ~InLibs(f) /\ ReturnedFor(f, 0 - 1)

(* A USE run met two cache hits with a callback option: one file was
   loaded again and enrolled loaded, the other failed to load again and
   was skipped. *)
C11_Witness ==
    /\ scan.ran /\ scan.mode = "USE" /\ ~crashed
    /\ \E f \in Files, g \in Files, i \in 1 .. Len(libs) :
          /\ CacheHit(f) /\ CacheHit(g)
          /\ libs[i].name = f /\ DeclaresListCallback(libs[i])
          /\ libs[i].loaded /\ <<f, FALSE>> \in Range(scan.loads)
          /\ fs[g].config = CallbackOption /\ ~fs[g].sound
          /\ ReturnedFor(g, 0 - 1) /\ ~InLibs(g)

(* The step is a call of module_Map on the descriptor at position i *)
MapStep(i) == mapped'.called /\ mapped'.lib = i

FileOfLib(d) == FileOf(d.filename)

(* C12: module_Map is idempotent.  A call on a loaded descriptor returns
   0, makes no Load call and changes neither libs nor the open handles;
   a call on an unloaded descriptor that returns 0 has made exactly one
   Load call, with fast = false, and leaves the descriptor loaded; and a
   loaded descriptor stays as it is for as long as it is in libs, so the
   next call on it makes no Load call. *)
C12_MapIdempotent ==
    [][/\ \A i \in 1 .. Len(libs) :
             MapStep(i) =>
                IF libs[i].loaded
                THEN /\ mapped'.ret = 0 /\ mapped'.loads = <<>>
                     /\ libs' = libs /\ open' = open
                ELSE mapped'.ret = 0 =>
                        /\ mapped'.loads = <<<<FileOfLib(libs[i]), FALSE>>>>
                        /\ libs'[i].loaded
                        /\ LibNames(libs') = LibNames(libs)
       /\ LibNames(libs') = LibNames(libs) =>
             \A i \in 1 .. Len(libs) :
                 libs[i].loaded => libs'[i] = libs[i]
      ]_vars

(* module_Map was called on a plug-in that discovery had enrolled from
   the cache without loading it and that an earlier module_Map has loaded:
   the call returned 0 without a Load call. *)
C12_Witness ==
    /\ mapped.called /\ mapped.ret = 0 /\ mapped.loads = <<>>
    /\ scan.ran /\ mapped.lib \in 1 .. Len(libs)
    /\ ~IsStatic(libs[mapped.lib])
    /\ libs[mapped.lib].loaded
    /\ ~LoadCalled(libs[mapped.lib].name)

(* C13: module_Map on a corrupt file.  A call on an unloaded descriptor
   whose file does not load returns -1 and changes nothing of the bank:
   libs, and in it the descriptor, unloaded and without handle, caches,
   usage, the trace of the discovery run and the open handles are as
   before; so is the next call. *)
C13_MapCorruptFile ==
    [][\A i \in 1 .. Len(libs) :
         (MapStep(i) /\ ~libs[i].loaded /\ ~fs[FileOfLib(libs[i])].sound)
         => /\ mapped'.ret = 0 - 1
            /\ libs' = libs
            /\ ~libs'[i].loaded /\ libs'[i].handle = NoHandle
            /\ caches' = caches /\ usage' = usage /\ scan' = scan
            /\ open' = open
      ]_vars

(* module_Map has failed on a plug-in enrolled from the cache: the Load
   call was made, -1 returned, the descriptor is still unloaded. *)
C13_Witness ==
    /\ mapped.called /\ mapped.ret = 0 - 1
    /\ Len(mapped.loads) = 1
    /\ mapped.lib \in 1 .. Len(libs)
    /\ ~libs[mapped.lib].loaded
    /\ libs[mapped.lib].handle = NoHandle
    /\ ~fs[libs[mapped.lib].name].sound

(* The primary module of a descriptor and its k-th submodule *)
Primary(d) ==
    [plugin |-> d.name, index |-> 0, cap |-> d.cap, score |-> d.score]

SubModule(d, k) ==
    [plugin |-> d.name, index |-> k,
     cap |-> d.subs[k].cap, score |-> d.subs[k].score]

(* The modules of the bank that advertise cap *)
Providers(cap) ==
    {Primary(libs[i]) : i \in {j \in 1 .. Len(libs) : libs[j].cap = cap}}
    \cup UNION {{SubModule(libs[i], k) :
                   k \in {n \in 1 .. Len(libs[i].subs) :
                            libs[i].subs[n].cap = cap}} :
                i \in 1 .. Len(libs)}

PositionOf(f) == CHOOSE i \in 1 .. Len(libs) : libs[i].name = f

(* C14: module_list_cap(cap) returns a table holding exactly the primary
   modules and submodules of the descriptors in libs that provide cap,
   each once, their number being the value returned, and scores never
   increase from one entry of the table to the next. *)
C14_ListByCapability ==
    (listed.called /\ listed.cap \in Caps) =>
        /\ listed.ret = Len(listed.list)
        /\ Range(listed.list) = Providers(listed.cap)
        /\ Cardinality(Range(listed.list)) = Len(listed.list)
        /\ \A i \in 1 .. Len(listed.list) : \A j \in 1 .. Len(listed.list) :
               i < j => listed.list[i].score >= listed.list[j].score

(* Number of modules of the descriptors before position i of libs *)
ModulesBefore(i) == SumSeq([j \in 1 .. i - 1 |-> 1 + libs[j].nsub])

TotalModules == SumSeq([j \in 1 .. Len(libs) |-> 1 + libs[j].nsub])

(* C15: module_list_get returns a table whose length is the sum over the
   descriptors in libs of 1 + submodule_count, holding for every
   descriptor, in the order of libs, its primary module followed by its
   submodules; module_LoadPlugins has returned that total; and with no
   plug-in file below the search root and no static plug-in it has
   returned 1. *)
C15_ListAll ==
    /\ (listed.called /\ listed.cap = NoCap) =>
          /\ listed.ret = TotalModules
          /\ Len(listed.list) = TotalModules
          /\ \A i \in 1 .. Len(libs) :
                /\ listed.list[ModulesBefore(i) + 1] = Primary(libs[i])
                /\ libs[i].nsub = Len(libs[i].subs)
                /\ \A k \in 1 .. libs[i].nsub :
                      listed.list[ModulesBefore(i) + 1 + k]
                          = SubModule(libs[i], k)
    /\ \A t \in Threads :
          pc[t] = "ready" =>
             /\ ret[t] = TotalModules
             /\ ((\A f \in Files : fs[f].dir = Absent) /\ statics = 0)
                   => ret[t] = 1

(* module_list_get has listed a bank of two plug-ins, one with
   submodules, after module_LoadPlugins had returned their number. *)
C15_Witness ==
    /\ listed.called /\ listed.cap = NoCap
    /\ \E t \in Threads : pc[t] = "ready" /\ ret[t] = listed.ret
    /\ Len(libs) >= 3
    /\ \E i \in 1 .. Len(libs) : libs[i].nsub >= 1
    /\ Len(listed.list) > Len(libs)

(* The descriptors of libs enrolled from the search root, in the order
   of their enrollment *)
RECURSIVE EnrolledFromRoot(_)
EnrolledFromRoot(l) ==
    IF l = <<>> THEN <<>>
    ELSE EnrolledFromRoot(Tail(l))
         \o (IF IsStatic(Head(l)) THEN <<>> ELSE <<Head(l)>>)

SavedOnceAfterScan ==
    /\ Len(scan.saved) = 1
    /\ scan.saved[1] = EnrolledFromRoot(libs)
    /\ cacheFile = CacheSave(EnrolledFromRoot(libs))
    /\ \A f \in Files :
          (WithinReach(f) /\ fs[f].sound) =>
              \E k \in 1 .. Len(scan.saved[1]) :
                  /\ scan.saved[1][k].name = f
                  /\ scan.saved[1][k].path = RelPathOf(f)
                  /\ scan.saved[1][k].mtime = fs[f].mtime
                  /\ scan.saved[1][k].size = fs[f].size

(* C16: the cache is saved only in RESET mode and after the scan.  After
   a discovery run in RESET mode CacheSave has been called exactly once,
   with the descriptors enrolled from the search root, every sound file
   within reach among them with its current path, mtime and size, and
   the blob on disk is what that call wrote; after a run in USE or IGNORE
   mode CacheSave has not been called. *)
C16_SavedOnceOnReset ==
    scan.ran =>
        IF scan.mode = "RESET" THEN SavedOnceAfterScan
        ELSE scan.saved = <<>>

(* Number of descriptors of l that module_EndBank must unload from f *)
ToUnload(l, f) ==
    Cardinality({i \in 1 .. Len(l) :
                    l[i].loaded /\ l[i].unloadable /\ l[i].handle = f})

EndBankDestroyStep(t) == pc[t] = "ending" /\ pc'[t] = "idle"

(* C17: the module_EndBank that brings usage to 0 takes libs and caches
   with it and leaves the bank empty and the lock free, without touching
   any handle yet; its walk of the detached list then closes, once, the
   handle of every descriptor that is loaded and unloadable, and no other:
   the handles of descriptors that are not loaded or not unloadable stay
   as they are, and the statically linked descriptors hold no handle. *)
C17_UnloadOnEnd ==
    [][\A t \in Threads :
         /\ (EndBankStep(t) /\ usage' = 0) =>
                /\ endLibs'[t] = libs /\ endCaches'[t] = caches
                /\ libs' = <<>> /\ caches' = <<>>
                /\ lock' = 0 /\ open' = open
         /\ EndBankDestroyStep(t) =>
                /\ \A f \in Files :
                       /\ open'[f] = open[f] - ToUnload(endLibs[t], f)
                       /\ ToUnload(endLibs[t], f) <= 1
                       /\ open'[f] >= 0
                /\ \A i \in 1 .. Len(endLibs[t]) :
                       IsStatic(endLibs[t][i]) =>
                           /\ ~endLibs[t][i].unloadable
                           /\ endLibs[t][i].handle = NoHandle
                /\ lock' = lock
      ]_vars

(* The last module_EndBank has walked a list holding a loaded unloadable
   plug-in and a loaded plug-in that forbids unloading: the handle of the
   first is closed, that of the second is still open. *)
C17_Witness ==
    /\ usage = 0 /\ libs = <<>>
    /\ \A t \in Threads : pc[t] = "idle"
    /\ \E f \in Files, g \in Files :
          /\ fs[f].unloadable /\ open[f] = 0
          /\ ~fs[g].unloadable /\ open[g] = 1

LoadPluginsStep(t) ==
    pc[t] = "inited" /\ pc'[t] \in {"counting", "crashed"}

(* C18: enrollment and discovery run once per bank lifetime.  A
   module_LoadPlugins call that finds usage at 2 or more changes neither
   libs nor caches, opens no handle and leaves the trace of the discovery
   run alone; a call that enrolls or scans finds usage at 1, libs holding
   the core alone and no discovery run made since usage left 0; and libs
   never holds two descriptors of the same plug-in. *)
C18_DiscoveryOncePerLifetime ==
    /\ [][\A t \in Threads :
            /\ (LoadPluginsStep(t) /\ usage >= 2) =>
                   /\ libs' = libs /\ caches' = caches
                   /\ open' = open /\ scan' = scan
                   /\ cacheFile' = cacheFile
            /\ (LoadPluginsStep(t) /\ (libs' # libs \/ scan' # scan)) =>
                   /\ usage = 1
                   /\ ~scan.ran
                   /\ LibNames(libs) = <<CoreName>>
         ]_vars
    /\ [](\A i \in 1 .. Len(libs) : \A j \in 1 .. Len(libs) :
             libs[i].name = libs[j].name => i = j)

(* Both threads are back from module_LoadPlugins, the second having
   found usage at 2: every sound plug-in file is in libs, once. *)
C18_Witness ==
    /\ usage = 2 /\ scan.ran /\ statics = MaxStatic
    /\ \A t \in Threads : pc[t] = "ready" /\ ret[t] = Len(libs)
    /\ \E f \in Files : InLibs(f)
    /\ Len(libs) = 1 + statics + Cardinality({f \in Files : InLibs(f)})

(* How many times h occurs in the log *)
Occurrences(log, h) == Cardinality({k \in 1 .. Len(log) : log[k] = h})

Holders(f) ==
    {i \in 1 .. Len(libs) : libs[i].handle = f}

(* C19: module_InitDynamic neither leaks nor shares a handle.  In a
   module_Map call on an unloaded descriptor, which calls it once: when it
   returns NULL, every handle Load gave was unloaded exactly once, the
   open handles are as before and libs is unchanged; when it returns a
   descriptor, nothing was unloaded, the one handle Load gave is open
   once more and is recorded, with loaded set, in the mapped descriptor
   and in no other, the rest of libs being unchanged.  It returns NULL
   exactly when the file does not load or describe itself.  After a
   discovery run, every handle Load gave during the run was unloaded, or
   is held by exactly one descriptor of libs, which is loaded. *)
C19_NoHandleLeak ==
    /\ [][\A i \in 1 .. Len(libs) :
            (MapStep(i) /\ ~libs[i].loaded) =>
               /\ mapped'.loads = <<<<FileOfLib(libs[i]), FALSE>>>>
               /\ (mapped'.ret = 0 - 1) <=> ~fs[FileOfLib(libs[i])].sound
               /\ IF mapped'.ret = 0 - 1
                  THEN /\ \A f \in Files :
                             Occurrences(mapped'.unloads, f)
                                 = Occurrences(mapped'.handles, f)
                       /\ Len(mapped'.unloads) <= 1
                       /\ open' = open /\ libs' = libs
                  ELSE /\ mapped'.unloads = <<>>
                       /\ mapped'.handles = <<FileOfLib(libs[i])>>
                       /\ open' = [open EXCEPT ![FileOfLib(libs[i])] = @ + 1]
                       /\ libs'[i].loaded
                       /\ libs'[i].handle = FileOfLib(libs[i])
                       /\ libs' = [libs EXCEPT ![i] = libs'[i]]
                       /\ LibNames(libs') = LibNames(libs)
         ]_vars
    /\ [](\A t \in Threads : \A f \in Files :
             (AfterScan(pc[t]) /\ scan.ran) =>
                /\ Occurrences(scan.handles, f)
                       - Occurrences(scan.unloads, f)
                   = Cardinality(Holders(f))
                /\ Cardinality(Holders(f)) <= 1
                /\ \A i \in Holders(f) : libs[i].loaded /\ libs[i].name = f
                /\ open[f] = Cardinality(Holders(f)))

(* module_Map has met a file the linker loads but that has no entry
   point: the handle was unloaded again and NULL returned, while another
   plug-in holds the handle its load gave. *)
C19_Witness ==
    /\ mapped.called /\ mapped.ret = 0 - 1
    /\ mapped.handles # <<>> /\ mapped.handles = mapped.unloads
    /\ mapped.handles[1] # NoHandle
    /\ \E i \in 1 .. Len(libs) :
          ~IsStatic(libs[i]) /\ libs[i].loaded /\ open[libs[i].handle] = 1

(* The descriptor vlc_cache_load made of entry e, before and after
   AllocatePluginFile stamped the absolute path of its file on it *)
Stamped(e) == [e EXCEPT !.filename = BaseDir \o e.path]

EnrolledFromCache(e) == \E i \in 1 .. Len(libs) : libs[i] = Stamped(e)

TimesDestroyed(e) ==
    Cardinality({k \in 1 .. Len(scan.destroyed) :
                    scan.destroyed[k] \in {e, Stamped(e)}})

(* C20: a scan partitions the cache entries.  When AllocatePluginPath
   has returned from a run in USE mode, every descriptor made from the
   cache blob is either in libs and was never destroyed, or is not in
   libs and was destroyed exactly once; the list of unmatched entries is
   empty; and no descriptor of libs is among the destroyed ones. *)
C20_CachePartition ==
    \A t \in Threads :
        (pc[t] = "counting" /\ scan.ran /\ scan.mode = "USE") =>
            /\ \A e \in Entries(cacheFile) :
                   \/ EnrolledFromCache(e) /\ TimesDestroyed(e) = 0
                   \/ ~EnrolledFromCache(e) /\ TimesDestroyed(e) = 1
            /\ scan.cache = <<>>
            /\ \A i \in 1 .. Len(libs) :
                   libs[i] \notin Range(scan.destroyed)

(* A USE run has enrolled one cache entry, destroyed a stale one in the
   discard loop and loaded the file of the stale one afresh. *)
C20_Witness ==
    /\ scan.ran /\ scan.mode = "USE"
    /\ \E t \in Threads : pc[t] = "counting"
    /\ \E e1 \in Entries(cacheFile), e2 \in Entries(cacheFile) :
          /\ EnrolledFromCache(e1) /\ TimesDestroyed(e1) = 0
          /\ ~EnrolledFromCache(e2) /\ TimesDestroyed(e2) = 1
          /\ e2 \in Range(scan.destroyed)
          /\ InLibs(e2.name)

----------------------------------------------------------------------------
(* The calls of module_InitDynamic with fast = false of the last discovery
   run: each one is the branch of the config loop that destroys the
   descriptor and loads the file again, the branch that holds
   assert(bank->mode != CACHE_RESET). *)
ReloadBranchTaken == \E k \in 1 .. Len(scan.loads) : ~scan.loads[k][2]

(* C21: the branch of the config loop that destroys a descriptor that is
   not loaded and loads the file again with fast = false is never taken
   by a discovery run in RESET mode, nor in IGNORE mode: in those modes no
   file is loaded with fast = false, no descriptor is destroyed, and every
   descriptor the run enrolled is loaded. *)
C21_ReloadOnlyInUseMode ==
    (scan.ran /\ scan.mode \in {"RESET", "IGNORE"})
    => /\ ~ReloadBranchTaken
       /\ scan.destroyed = <<>>
       /\ \A i \in 1 .. Len(scan.plugins) : scan.plugins[i].loaded
       /\ \A i \in 1 .. Len(libs) : libs[i].loaded

(* A RESET run enrolled a file whose descriptor has a callback option,
   out of one load with fast = true, and saved it to the cache. *)
C21_Witness ==
    /\ scan.ran /\ scan.mode = "RESET"
    /\ \E i \in 1 .. Len(libs) :
           /\ DeclaresListCallback(libs[i])
           /\ libs[i].name \in Files
           /\ libs[i].loaded
           /\ Occurrences(scan.loads, <<libs[i].name, TRUE>>) = 1
           /\ CacheEntry(libs[i]) \in Entries(cacheFile)

----------------------------------------------------------------------------
(* The identity of file f as AllocatePluginFile receives it *)
HasAbsPath(d, f) == d.filename = BaseDir \o RelPathOf(f)

HasIdentity(d, f) ==
    /\ d.path = RelPathOf(f)
    /\ d.mtime = vlc_stat(f).mtime
    /\ d.size = vlc_stat(f).size

(* The last discovery run loaded f again with fast = false *)
LoadedAgain(f) == <<f, FALSE>> \in Range(scan.loads)

(* C22, as stated: when a discovery run returns, every descriptor it
   enrolled from a file carries the relative path, the mtime, the size and
   the absolute path of that file, and every descriptor handed to CacheAdd
   has a path. *)
C22_EnrolledCarryIdentity ==
    \A t \in Threads :
        (pc[t] = "counting" /\ scan.ran) =>
            /\ \A i \in 1 .. Len(libs) :
                   libs[i].name \in Files =>
                       /\ HasIdentity(libs[i], libs[i].name)
                       /\ HasAbsPath(libs[i], libs[i].name)
            /\ \A i \in 1 .. Len(scan.plugins) :
                   scan.plugins[i].path # NoPath

(* C22, amended: when a discovery run returns, every descriptor it
   enrolled from a file carries the absolute path of that file; it carries
   the file's relative path, mtime and size when it came from a cache hit
   or from the load with fast = true, and no path at all when the file was
   loaded again with fast = false because of a callback option.  The
   descriptors handed to CacheAdd are the enrolled ones in every mode but
   IGNORE, so in USE mode a descriptor loaded again is handed to CacheAdd
   without a path. *)
C22_IdentityUnlessLoadedAgain ==
    \A t \in Threads :
        (pc[t] = "counting" /\ scan.ran) =>
            /\ \A i \in 1 .. Len(libs) :
                   libs[i].name \in Files =>
                       /\ HasAbsPath(libs[i], libs[i].name)
                       /\ IF LoadedAgain(libs[i].name)
                          THEN libs[i].path = NoPath /\ scan.mode = "USE"
                          ELSE HasIdentity(libs[i], libs[i].name)
            /\ scan.plugins = IF scan.mode = "IGNORE" THEN <<>>
                              ELSE EnrolledFromRoot(libs)

(* A USE run enrolled one file from a cache hit that had to be loaded
   again, left without a path and handed so to CacheAdd, and another file
   from a load with fast = true, stamped with the identity of the file. *)
C22_Witness ==
    /\ scan.ran /\ scan.mode = "USE"
    /\ \E t \in Threads : pc[t] = "counting"
    /\ \E i \in 1 .. Len(libs), j \in 1 .. Len(libs) :
           /\ libs[i].name \in Files /\ libs[j].name \in Files
           /\ CacheHit(libs[i].name) /\ LoadedAgain(libs[i].name)
           /\ libs[i].path = NoPath
           /\ libs[i] \in Range(scan.plugins)
           /\ ~LoadedAgain(libs[j].name)
           /\ <<libs[j].name, TRUE>> \in Range(scan.loads)
           /\ HasIdentity(libs[j], libs[j].name)

----------------------------------------------------------------------------
(* The threads between vlc_mutex_lock and vlc_mutex_unlock in module_Map *)
InMapSection == {t \in Threads :
                    mapCall[t].stage \in {"locked", "loaded", "unlocking"}}

(* The threads holding a descriptor module_InitDynamic gave them for the
   plug-in at position i, not merged yet *)
Uncaching(i) == {t \in Threads : /\ mapCall[t].stage = "loaded"
                                  /\ mapCall[t].lib = i
                                  /\ mapCall[t].uncache # NULL}

(* The descriptors of detached lists that hold the handle of f *)
DetachedHolders(f) ==
    {<<t, i>> \in Threads \X (1 .. NFiles + MaxStatic + 1) :
        i <= Len(endLibs[t]) /\ endLibs[t][i].handle = f}

(* The descriptor comes from a file that loads and describes itself *)
Loadable(d) == d.name \in Files /\ fs[d.name].sound

MapReturns(t) == mapCall[t].stage = "unlocking" /\ mapCall'[t].stage = "none"

MapLoads(t) == mapCall[t].stage = "locked" /\ mapCall'[t].stage = "loaded"

(* C23: the lock of module_Map serializes concurrent calls.  At most one
   thread is between the lock and the unlock, and it holds the lock; a
   thread calls module_InitDynamic only on a descriptor that is not
   loaded, while no other thread holds a descriptor to merge; every open
   handle of a file is held by exactly one descriptor, at most one of
   them in libs, so no merge overwrites a handle; and every call on a
   plug-in whose file loads returns 0 and leaves its descriptor loaded,
   with the handle of its file. *)
C23_MapSerialized ==
    /\ [](/\ Cardinality(InMapSection) <= 1
          /\ \A t \in InMapSection : mapLock = t
          /\ \A i \in 1 .. Len(libs) :
                 /\ Cardinality(Uncaching(i)) <= 1
                 /\ Uncaching(i) # {} =>
                        ~libs[i].loaded /\ libs[i].handle = NoHandle
          /\ \A f \in Files :
                 /\ Cardinality(Holders(f)) <= 1
                 /\ open[f] = Cardinality(Holders(f))
                              + Cardinality(DetachedHolders(f))
                              + Cardinality({t \in Threads :
                                    /\ mapCall[t].stage = "loaded"
                                    /\ mapCall[t].uncache # NULL
                                    /\ mapCall[t].uncache[1].handle = f}))
    /\ [][\A t \in Threads :
            /\ MapLoads(t) =>
                  /\ ~libs[mapCall[t].lib].loaded
                  /\ libs[mapCall[t].lib].name \in Files
                  /\ \A u \in Threads \ {t} : u \notin InMapSection
                  /\ mapCall'[t].loads
                        = <<<<FileOfLib(libs[mapCall[t].lib]), FALSE>>>>
            /\ (MapReturns(t) /\ Loadable(libs[mapCall[t].lib]))
               => /\ mapped'.ret = 0
                  /\ libs'[mapCall[t].lib].loaded
                  /\ libs'[mapCall[t].lib].handle
                        = FileOfLib(libs[mapCall[t].lib])
                  /\ open'[FileOfLib(libs[mapCall[t].lib])] >= 1
                  /\ libs' = libs
         ]_vars

(* Two threads called module_Map on the same plug-in enrolled from the
   cache, not loaded: the first has loaded it, merged and returned 0
   while the second was waiting for the lock, the one handle of the file
   being open once. *)
C23_Witness ==
    /\ mapped.called /\ mapped.ret = 0
    /\ mapped.lib \in 1 .. Len(libs)
    /\ Loadable(libs[mapped.lib])
    /\ mapped.loads = <<<<FileOfLib(libs[mapped.lib]), FALSE>>>>
    /\ libs[mapped.lib].loaded
    /\ open[FileOfLib(libs[mapped.lib])] = 1
    /\ mapLock = 0
    /\ \E u \in Threads : /\ mapCall[u].stage = "called"
                           /\ mapCall[u].lib = mapped.lib

----------------------------------------------------------------------------
(* The modules module_list_cap has just sorted *)
Compared == Range(listed.list)

(* C24: modulecmp is a descending order on the whole range of int.  For
   every two modules module_list_cap sorts, whatever their scores, the
   comparison is negative when the first has the larger score, positive
   when it has the smaller one and zero when the scores are equal, and
   the scores never increase along the table returned. *)
C24_ComparatorDescending ==
    (listed.called /\ listed.cap \in Caps) =>
        /\ \A ma \in Compared : \A mb \in Compared :
               /\ ma.score > mb.score => modulecmp(ma, mb) < 0
               /\ ma.score < mb.score => modulecmp(ma, mb) > 0
               /\ ma.score = mb.score => modulecmp(ma, mb) = 0
        /\ \A i \in 1 .. Len(listed.list) - 1 :
               listed.list[i].score >= listed.list[i + 1].score

====
